---- MODULE Spec2Model ----
(***************************************************************************)
(* Model of src/bot.py: the /delete_pings slash command (permission gate,  *)
(* per-channel history scan, periodic and final bulk deletes, single       *)
(* deletes, final report).  One action per stretch of the handler between  *)
(* two suspension points (await).                                          *)
(***************************************************************************)
EXTENDS Integers, Sequences, FiniteSets, TLC

\* ---------------------------------------------------------------- constants
\* src/bot.py:184  datetime.timedelta(days=14), in clock units
FourteenDays == 14
\* src/bot.py:229, 259, 260  chunk size of a bulk delete
BatchCap == 99
\* src/bot.py:216  channel.history(limit=5000)
HistoryLimit == 5000

\* ------------------------------------------------------------------- bounds
\* how far the clock may advance during one run (in clock units)
MaxDrift == 1
\* how many delete calls of one invocation may fail
MaxFaults == 2
\* number of text channels of the server
NumChannels == 2

\* -------------------------------------------------------------- identities
None == "None"
BotUser == "bot"          \* bot.user.id
OtherUser == "other"      \* any other author or invoker
OwnerUser == "owner"      \* app_info.owner.id

ClockStart == FourteenDays + 6

\* creation instants used by the histories below
Fresh == ClockStart - 1                    \* recent whatever the drift
Edge == ClockStart - FourteenDays + 1      \* recent only if the run starts at ClockStart
Boundary == ClockStart - FourteenDays      \* exactly 14 days old at ClockStart
Old == Boundary - 6                        \* aged whatever the drift

\* A history is a sequence of blocks, newest first (channel.history yields
\* newest first); a block is count messages of one author and instant.
Block(a, t, n) == [author |-> a, created_at |-> t, count |-> n]

RECURSIVE HistLen(_)
HistLen(h) == IF h = <<>> THEN 0 ELSE Head(h).count + HistLen(Tail(h))

\* the i-th message the history iterator yields (1-based)
RECURSIVE MsgAt(_, _)
MsgAt(h, i) ==
  IF i <= Head(h).count
  THEN [id |-> i, author |-> Head(h).author, created_at |-> Head(h).created_at]
  ELSE [MsgAt(Tail(h), i - Head(h).count) EXCEPT !.id = i]

\* a short history with every kind of message
MixedHistory ==
  << Block(OtherUser, Fresh, 1), Block(BotUser, Fresh, 1), Block(BotUser, Edge, 1),
     Block(BotUser, Boundary, 1), Block(OtherUser, Old, 1), Block(BotUser, Old, 2) >>
\* a history with a single, aged, message of the bot
QuietHistory == << Block(OtherUser, Fresh, 2), Block(BotUser, Old, 1) >>
\* exactly one full batch
FullBatchHistory == << Block(BotUser, Fresh, BatchCap) >>
\* one full batch, then a partial one and aged messages
OverflowHistory ==
  << Block(BotUser, Fresh, BatchCap), Block(OtherUser, Fresh, 1),
     Block(BotUser, Fresh, 1), Block(BotUser, Edge, 1), Block(BotUser, Boundary, 1),
     Block(BotUser, Old, 1) >>

\* n messages of the bot, all created an hour before the run
RecentHistory(n) == << Block(BotUser, Fresh, n) >>
\* n messages of the bot, all created 20 days before the run
AgedHistory(n) == << Block(BotUser, Old, n) >>

\* more than 5000 messages; the 5000th is the bot's, and so is the 5001st
LongHistory ==
  << Block(OtherUser, Fresh, HistoryLimit - 3), Block(BotUser, Fresh, 1),
     Block(BotUser, Old, 4) >>
\* more than 5000 messages; the 5000th fills a batch
LongBatchHistory ==
  << Block(OtherUser, Fresh, HistoryLimit - BatchCap), Block(BotUser, Fresh, BatchCap + 1) >>

\* a text channel: the bot's channel permissions and the channel's history
Channel(r, m, h) == [read_message_history |-> r, manage_messages |-> m, history |-> h]

SmallChannels ==
  {Channel(TRUE, TRUE, MixedHistory), Channel(TRUE, TRUE, QuietHistory),
   Channel(FALSE, TRUE, MixedHistory), Channel(TRUE, FALSE, MixedHistory)}

\* servers of NumChannels channels with short histories
SmallGuilds == [1 .. NumChannels -> SmallChannels]

\* servers with a channel whose history fills a batch
BatchGuilds ==
  {<< Channel(TRUE, TRUE, FullBatchHistory) >>,
   << Channel(TRUE, TRUE, OverflowHistory), Channel(TRUE, TRUE, QuietHistory) >>,
   << Channel(TRUE, FALSE, MixedHistory), Channel(TRUE, TRUE, OverflowHistory) >>}

\* sizes around the multiples of the chunk size
ScenarioSizes ==
  {1, BatchCap, BatchCap + 1, BatchCap + 51, 2 * BatchCap}

\* servers whose channels hold only recent or only aged messages of the bot
ScenarioGuilds ==
  {<< Channel(TRUE, TRUE, RecentHistory(n)) >> : n \in ScenarioSizes}
    \cup {<< Channel(TRUE, TRUE, AgedHistory(n)) >> : n \in 1 .. 3}
    \cup {<< Channel(TRUE, TRUE, RecentHistory(BatchCap)), Channel(TRUE, TRUE, AgedHistory(2)) >>,
          << Channel(TRUE, TRUE, << Block(BotUser, Fresh, BatchCap), Block(BotUser, Edge, 2) >>) >>}

\* servers with a channel that holds more messages than one scan inspects
LongGuilds ==
  {<< Channel(TRUE, TRUE, LongHistory) >>, << Channel(TRUE, TRUE, LongBatchHistory) >>}

\* the invoking interaction: user id, server context, server-wide permission
Interaction(u, g, m) == [user |-> u, guild |-> g, manage_messages |-> m]

Interactions ==
  {Interaction(OwnerUser, TRUE, FALSE), Interaction(OtherUser, TRUE, FALSE),
   Interaction(OwnerUser, FALSE, TRUE)}

\* every kind of invoker, inside and outside a server
AllInteractions ==
  {Interaction(u, g, m) : u \in {OwnerUser, OtherUser}, g \in BOOLEAN, m \in BOOLEAN}

\* a server of one channel
GateGuilds == {<< Channel(TRUE, TRUE, MixedHistory) >>}

\* a server without text channels
EmptyGuilds == {<< >>}

\* the users that invoke shutdown_command
Users == {OwnerUser, OtherUser}

\* member.status
Statuses == {"online", "idle", "dnd", "offline"}

\* a member of a channel: id, bot flag, presence status
Member(id, bot, status) == [id |-> id, bot |-> bot, status |-> status]

NoMember == Member(None, FALSE, "none")

BotMember == Member(BotUser, TRUE, "online")

Authors == {Member("author", FALSE, "online"), Member("webhook", TRUE, "online")}

\* the members a channel may have besides the bot and the author
MemberSets ==
  {a \cup b :
     a \in {{}} \cup {{Member("alice", FALSE, st)} : st \in Statuses},
     b \in {{}, {Member("bob", FALSE, "online")}, {Member("helper", TRUE, "online")}}}

\* a message event: its author, whether it mentions the bot, whether it was
\* sent in a text channel of a server, the members of its channel and whether
\* reading them raises
Message(author, mentions_bot, text_channel, members, members_raise) ==
  [author |-> author, mentions_bot |-> mentions_bot, text_channel |-> text_channel,
   members |-> members, members_raise |-> members_raise]

NoMessage == Message(NoMember, FALSE, FALSE, {}, FALSE)

Messages ==
  {Message(a, mb, tc, {BotMember, a} \cup ms, r) :
     a \in Authors, mb \in BOOLEAN, tc \in BOOLEAN, ms \in MemberSets, r \in BOOLEAN}


\* ------------------------------------------------------------------- state
VARIABLES
  now,                        \* the clock (datetime.now)
  bot_owner_id,               \* global bot_owner_id
  interaction,                \* the invoking interaction
  text_channels,              \* interaction.guild.text_channels
  pc,                         \* position of the delete_pings invocation
  start_time,
  fourteen_days_ago,
  deleted_count,
  failed_count,
  ch,                         \* index of the for loop over text_channels
  messages_to_delete_bulk,
  messages_to_delete_single,
  channel_deleted_count,
  channel_failed_count,
  processed_count,
  flush_i,                    \* i of the final chunk loop
  single_i,                   \* messages of the single queue already iterated
  last_call,                  \* the most recent delete call and its outcome
  batch_calls,                \* size and outcome of the bulk calls of the current channel
  not_found_count,            \* single deletes of the current channel that hit NotFound
  single_calls,               \* message.delete calls made for the current channel
  faults,                     \* failed delete calls so far
  results,                    \* per channel: the counts when its iteration ended
  followups,                  \* messages sent to the invoker
  shutdown_pc,                \* per invoker: position of their shutdown_command
  ready_pc,                   \* position of on_ready
  closed_by,                  \* invokers whose shutdown_command called bot.close()
  received_message,           \* the message on_message was called with
  mention_pc,                 \* position of on_message
  chosen_member,              \* random.choice(eligible_members)
  replies                     \* messages on_message has sent

vars ==
  << now, bot_owner_id, interaction, text_channels, pc, start_time,
     fourteen_days_ago, deleted_count, failed_count, ch, messages_to_delete_bulk,
     messages_to_delete_single, channel_deleted_count, channel_failed_count,
     processed_count, flush_i, single_i, last_call, batch_calls, not_found_count,
     single_calls, faults, results, followups, shutdown_pc, ready_pc, closed_by,
     received_message, mention_pc, chosen_member, replies >>

\* the state of delete_pings, and the state of the other handlers
delete_vars ==
  << now, interaction, text_channels, pc, start_time,
     fourteen_days_ago, deleted_count, failed_count, ch, messages_to_delete_bulk,
     messages_to_delete_single, channel_deleted_count, channel_failed_count,
     processed_count, flush_i, single_i, last_call, batch_calls, not_found_count,
     single_calls, faults, results, followups >>

owner_vars == << shutdown_pc, ready_pc, closed_by >>

mention_vars == << received_message, mention_pc, chosen_member, replies >>

handler_vars == << owner_vars, mention_vars >>

engine_vars ==
  << start_time, fourteen_days_ago, deleted_count, failed_count, ch,
     messages_to_delete_bulk, messages_to_delete_single, channel_deleted_count,
     channel_failed_count, processed_count, flush_i, single_i, last_call,
     batch_calls, not_found_count, single_calls, faults, results >>

channel_vars ==
  << messages_to_delete_bulk, messages_to_delete_single, channel_deleted_count,
     channel_failed_count, processed_count, flush_i, single_i, batch_calls,
     not_found_count, single_calls >>

NoCall == [seq |-> 0, kind |-> "none", channel |-> 0, msgs |-> <<>>,
           outcome |-> "none", sleep |-> 0]

\* the instants an await may resume at
Elapse == {t \in now .. now + 1 : t <= ClockStart + MaxDrift}

\* no shutdown_command has been invoked and on_ready is not running
InitOwnerHandlers ==
  /\ shutdown_pc = [u \in Users |-> "idle"]
  /\ ready_pc = "idle"
  /\ closed_by = {}

\* on_message is called with one of the messages
InitOnMessage(messages) ==
  /\ received_message \in messages
  /\ mention_pc = IF received_message = NoMessage THEN "idle" ELSE "received"
  /\ chosen_member = NoMember
  /\ replies = <<>>

\* a delete_pings invocation has been received
InitDeletePings(interactions, guilds) ==
  /\ now = ClockStart
  /\ bot_owner_id \in {None, OwnerUser}
  /\ interaction \in interactions
  /\ text_channels \in guilds
  /\ pc = "invoked"
  /\ start_time = 0
  /\ fourteen_days_ago = 0
  /\ deleted_count = 0
  /\ failed_count = 0
  /\ ch = 0
  /\ messages_to_delete_bulk = <<>>
  /\ messages_to_delete_single = <<>>
  /\ channel_deleted_count = 0
  /\ channel_failed_count = 0
  /\ processed_count = 0
  /\ flush_i = 0
  /\ single_i = 0
  /\ last_call = NoCall
  /\ batch_calls = <<>>
  /\ not_found_count = 0
  /\ single_calls = 0
  /\ faults = 0
  /\ results = <<>>
  /\ followups = <<>>

InitWith(interactions, guilds) ==
  /\ InitDeletePings(interactions, guilds)
  /\ InitOwnerHandlers
  /\ InitOnMessage({NoMessage})

Init == InitWith(Interactions, SmallGuilds)

InitBatch == InitWith(Interactions, BatchGuilds)

InitScenario == InitWith(Interactions, ScenarioGuilds)

InitLong == InitWith(Interactions, LongGuilds)

InitGate == InitWith(AllInteractions, GateGuilds)

InitOwner == InitWith(Interactions, EmptyGuilds)

InitMention ==
  /\ InitDeletePings({Interaction(OwnerUser, TRUE, FALSE)}, EmptyGuilds)
  /\ InitOwnerHandlers
  /\ InitOnMessage(Messages)

\* ------------------------------------------------------- permission gate
\* a message of the handler to the invoker (interaction.response / followup);
\* a summary carries the totals and the elapsed time
Followup(kind, deleted, failed, duration, delivered) ==
  [kind |-> kind, deleted |-> deleted, failed |-> failed, duration |-> duration,
   delivered |-> delivered]

Notice(kind) == Followup(kind, 0, 0, 0, TRUE)

\* lines 166-172: the entry log line reads interaction.guild.name, which raises
\* outside a server (lines 375-416 then answer with a generic error); otherwise
\* the response is deferred and the handler suspends
Defer ==
  /\ pc = "invoked"
  /\ UNCHANGED handler_vars
  /\ IF interaction.guild
     THEN /\ pc' = "check_perms"
          /\ UNCHANGED followups
     ELSE /\ pc' = "done"
          /\ followups' = Append(followups, Notice("command-error"))
  /\ UNCHANGED << now, bot_owner_id, interaction, text_channels >>
  /\ UNCHANGED engine_vars

\* a gate that lets every invoker pass
IsAuthorizedAnyone(owner) == TRUE

\* lines 59-66: owner, or holder of the server-wide Manage Messages permission
IsAuthorized(owner) ==
  \/ interaction.user = owner
  \/ interaction.manage_messages

\* lines 180-190: counters and the cutoff, set when the gate has passed
StartScan ==
  /\ deleted_count' = 0
  /\ failed_count' = 0
  /\ start_time' = now'
  /\ fourteen_days_ago' = now' - FourteenDays
  /\ ch' = 1
  /\ pc' = "loop"
  /\ UNCHANGED << channel_vars, last_call, faults, results, followups >>

Denied(message) ==
  /\ pc' = "done"
  /\ followups' = Append(followups, Notice(message))
  /\ UNCHANGED engine_vars

\* lines 36-42 and 59-73 when the owner id is known or the guild is missing;
\* line 46 sends the check to the fetch when bot_owner_id is None
CheckDeletePerms ==
  /\ pc = "check_perms"
  /\ UNCHANGED handler_vars
  /\ now' \in Elapse
  /\ UNCHANGED << bot_owner_id, interaction, text_channels >>
  /\ IF ~interaction.guild
     THEN Denied("server-only")
     ELSE IF bot_owner_id = None
     THEN /\ pc' = "fetch_owner"
          /\ UNCHANGED followups
          /\ UNCHANGED engine_vars
     ELSE IF IsAuthorized(bot_owner_id)
     THEN StartScan
     ELSE Denied("denied")

\* lines 47-57, then 59-73: bot.application_info() returns or raises
FetchOwner ==
  /\ pc = "fetch_owner"
  /\ UNCHANGED handler_vars
  /\ now' \in Elapse
  /\ UNCHANGED << interaction, text_channels >>
  /\ \/ /\ bot_owner_id' = OwnerUser
        /\ IF IsAuthorized(OwnerUser) THEN StartScan ELSE Denied("denied")
     \/ /\ UNCHANGED bot_owner_id
        /\ Denied("no-owner")


\* ------------------------------------------------------- deletion engine
\* outcomes of channel.delete_messages and of message.delete
BatchOutcomes ==
  {"ok"} \cup (IF faults < MaxFaults
               THEN {"Forbidden", "HTTPException", "Exception"} ELSE {})

SingleOutcomes ==
  {"ok"} \cup (IF faults < MaxFaults
               THEN {"Forbidden", "NotFound", "HTTPException", "Exception"} ELSE {})

Fault(outcome) == IF outcome = "ok" THEN 0 ELSE 1

\* line 209 asking for one of the two permissions only
HasChannelPermsEither(channel) ==
  channel.read_message_history \/ channel.manage_messages

\* line 209: both channel permissions are needed
HasChannelPerms(channel) ==
  channel.read_message_history /\ channel.manage_messages

\* the author check of line 222 left out
IsOwnMessageAnyAuthor(message) == TRUE

\* line 222
IsOwnMessage(message) == message.author = BotUser

\* the cutoff recomputed from the clock when the message is inspected
CutoffAtInspection(fixed, current) == current - FourteenDays

\* line 223: the cutoff a message is compared with (fixed at line 184)
CutoffAt(fixed, current) == fixed

\* line 223 taking every message for recent
IsRecentAlways(created_at, cutoff) == TRUE

\* line 223 with >= in place of >
IsRecentInclusive(created_at, cutoff) == created_at >= cutoff

\* line 223
IsRecent(created_at, cutoff) == created_at > cutoff

\* line 229 with > in place of >=
BulkFullStrict(bulk) == Len(bulk) > BatchCap

\* line 229
BulkFull(bulk) == Len(bulk) >= BatchCap

\* lines 233-234, 264-265, 270, 284-285, 289, 294, 298: each session counter
\* is incremented together with its channel counter
AddTotal(count, n) == count + n

\* a channel counter that is not incremented with its session counter
AddChannelForgotten(count, n) == count

AddChannel(count, n) == count + n

\* a successful periodic bulk delete that leaves the list as it is
PeriodicBulkKeepsList(outcome, bulk, single) ==
  IF outcome = "ok"
  THEN [bulk |-> bulk, single |-> single, deleted |-> Len(bulk), failed |-> 0,
        sleep |-> 10]
  ELSE [bulk |-> <<>>, single |-> single \o bulk, deleted |-> 0, failed |-> 0,
        sleep |-> 0]

\* a failed periodic bulk delete that clears the list without re-routing it
PeriodicBulkDropped(outcome, bulk, single) ==
  [bulk |-> <<>>, single |-> single,
   deleted |-> IF outcome = "ok" THEN Len(bulk) ELSE 0, failed |-> 0,
   sleep |-> IF outcome = "ok" THEN 10 ELSE 0]

\* lines 230-248: the periodic bulk delete; what it leaves in the two lists,
\* what it counts and how long it sleeps (tenths of a second)
PeriodicBulk(outcome, bulk, single) ==
  IF outcome = "ok"
  THEN [bulk |-> <<>>, single |-> single, deleted |-> Len(bulk), failed |-> 0,
        sleep |-> 10]
  ELSE [bulk |-> <<>>, single |-> single \o bulk, deleted |-> 0, failed |-> 0,
        sleep |-> 0]

\* a refused chunk that is counted failed and also handed to the single queue
FinalBulkCountedAndRerouted(outcome, chunk, single) ==
  CASE outcome = "ok" ->
         [single |-> single, deleted |-> Len(chunk), failed |-> 0, sleep |-> 10]
    [] outcome = "Forbidden" ->
         [single |-> single \o chunk, deleted |-> 0, failed |-> Len(chunk), sleep |-> 0]
    [] OTHER ->
         [single |-> single \o chunk, deleted |-> 0, failed |-> 0, sleep |-> 0]

\* lines 262-276: the bulk delete of one remaining chunk
FinalBulk(outcome, chunk, single) ==
  CASE outcome = "ok" ->
         [single |-> single, deleted |-> Len(chunk), failed |-> 0, sleep |-> 10]
    [] outcome = "Forbidden" ->
         [single |-> single, deleted |-> 0, failed |-> Len(chunk), sleep |-> 0]
    [] OTHER ->
         [single |-> single \o chunk, deleted |-> 0, failed |-> 0, sleep |-> 0]

\* NotFound caught by the handler of its base class HTTPException
SingleDeleteNotFoundAsHttp(outcome) ==
  CASE outcome = "ok" -> [deleted |-> 1, failed |-> 0, not_found |-> 0, sleep |-> 15]
    [] outcome \in {"NotFound", "HTTPException"} ->
         [deleted |-> 0, failed |-> 1, not_found |-> 0, sleep |-> 50]
    [] OTHER -> [deleted |-> 0, failed |-> 1, not_found |-> 0, sleep |-> 0]

\* lines 282-298: one single delete
SingleDelete(outcome) ==
  CASE outcome = "ok" -> [deleted |-> 1, failed |-> 0, not_found |-> 0, sleep |-> 15]
    [] outcome = "Forbidden" -> [deleted |-> 0, failed |-> 1, not_found |-> 0, sleep |-> 0]
    [] outcome = "NotFound" -> [deleted |-> 0, failed |-> 0, not_found |-> 1, sleep |-> 0]
    [] outcome = "HTTPException" ->
         [deleted |-> 0, failed |-> 1, not_found |-> 0, sleep |-> 50]
    [] OTHER -> [deleted |-> 0, failed |-> 1, not_found |-> 0, sleep |-> 0]

Call(kind, msgs, outcome, sleep) ==
  [seq |-> last_call.seq + 1, kind |-> kind, channel |-> ch, msgs |-> msgs,
   outcome |-> outcome, sleep |-> sleep]

\* lines 196-197, 308-309: the channel's counts when its iteration ends
Result(skipped) ==
  [channel |-> ch, deleted |-> channel_deleted_count',
   failed |-> channel_failed_count', skipped |-> skipped]

\* a loop that takes the same channel again
NextChannelAgain(index) == index

\* the for loop at line 192 moves on after a channel's iteration ended
NextChannel(index) == index + 1

\* a channel-level error that ends the for loop
NextChannelAfterErrorAbort(index) == index + NumChannels

\* lines 301-306: the handlers of a channel-level error fall through to the
\* next iteration of the for loop
NextChannelAfterError(index) == index + 1

\* lines 192-211: a new iteration resets the per-channel state, then skips the
\* channel if the bot member or a channel permission is missing
BeginChannel ==
  /\ pc = "loop"
  /\ UNCHANGED handler_vars
  /\ ch <= Len(text_channels)
  /\ messages_to_delete_bulk' = <<>>
  /\ messages_to_delete_single' = <<>>
  /\ channel_deleted_count' = 0
  /\ channel_failed_count' = 0
  /\ processed_count' = 0
  /\ flush_i' = 0
  /\ single_i' = 0
  /\ batch_calls' = <<>>
  /\ not_found_count' = 0
  /\ single_calls' = 0
  /\ \E bot_member \in BOOLEAN :
       IF ~bot_member
       THEN /\ ch' = NextChannel(ch)
            /\ pc' = "loop"
            /\ results' = Append(results, Result("no-member"))
       ELSE IF ~HasChannelPerms(text_channels[ch])
       THEN /\ ch' = NextChannel(ch)
            /\ pc' = "loop"
            /\ results' = Append(results, Result("missing-permission"))
       ELSE /\ pc' = "scan"
            /\ UNCHANGED << ch, results >>
  /\ UNCHANGED << now, bot_owner_id, interaction, text_channels, start_time,
                  fourteen_days_ago, deleted_count, failed_count, last_call,
                  faults, followups >>

\* a history iterator without a limit
HistoryHasNextUnlimited(h, n) == n < HistLen(h)

\* line 216: channel.history(limit=5000) yields another message after n
\* messages if the channel has one and the limit is not reached
HistoryHasNext(h, n) == n < HistoryLimit /\ n < HistLen(h)

\* lines 216-248: channel.history yields the next message
ScanMessage ==
  /\ pc = "scan"
  /\ UNCHANGED handler_vars
  /\ HistoryHasNext(text_channels[ch].history, processed_count)
  /\ now' \in Elapse
  /\ processed_count' = processed_count + 1
  /\ LET message == MsgAt(text_channels[ch].history, processed_count + 1)
         own == IsOwnMessage(message)
         recent == IsRecent(message.created_at, CutoffAt(fourteen_days_ago, now'))
         bulk == IF own /\ recent
                 THEN Append(messages_to_delete_bulk, message)
                 ELSE messages_to_delete_bulk
         single == IF own /\ ~recent
                   THEN Append(messages_to_delete_single, message)
                   ELSE messages_to_delete_single
     IN IF own /\ BulkFull(bulk)
        THEN \E outcome \in BatchOutcomes :
               LET r == PeriodicBulk(outcome, bulk, single)
               IN /\ messages_to_delete_bulk' = r.bulk
                  /\ messages_to_delete_single' = r.single
                  /\ deleted_count' = AddTotal(deleted_count, r.deleted)
                  /\ channel_deleted_count' = AddChannel(channel_deleted_count, r.deleted)
                  /\ failed_count' = AddTotal(failed_count, r.failed)
                  /\ channel_failed_count' = AddChannel(channel_failed_count, r.failed)
                  /\ last_call' = Call("bulk", bulk, outcome, r.sleep)
                  /\ batch_calls' = Append(batch_calls, [size |-> Len(bulk), outcome |-> outcome])
                  /\ faults' = faults + Fault(outcome)
        ELSE /\ messages_to_delete_bulk' = bulk
             /\ messages_to_delete_single' = single
             /\ UNCHANGED << deleted_count, channel_deleted_count, failed_count,
                             channel_failed_count, last_call, batch_calls, faults >>
  /\ pc' = "scan"
  /\ UNCHANGED << bot_owner_id, interaction, text_channels, start_time,
                  fourteen_days_ago, ch, flush_i, single_i, not_found_count,
                  single_calls, results, followups >>

\* a scan followed at once by the single deletes
AfterScanSkipFlush(bulk) == "single"

\* line 257: the remaining bulk list is flushed if it is not empty
AfterScan(bulk) == IF bulk # <<>> THEN "final_bulk" ELSE "single"

\* lines 251-257: the history is exhausted or the limit is reached
ScanEnd ==
  /\ pc = "scan"
  /\ UNCHANGED handler_vars
  /\ ~HistoryHasNext(text_channels[ch].history, processed_count)
  /\ now' \in Elapse
  /\ pc' = AfterScan(messages_to_delete_bulk)
  /\ flush_i' = 0
  /\ single_i' = 0
  /\ UNCHANGED << bot_owner_id, interaction, text_channels, start_time,
                  fourteen_days_ago, deleted_count, failed_count, ch,
                  messages_to_delete_bulk, messages_to_delete_single,
                  channel_deleted_count, channel_failed_count, processed_count,
                  last_call, batch_calls, not_found_count, single_calls, faults,
                  results, followups >>

\* a channel-level error that leaves the handler
AfterChannelErrorEscapes == "done"

\* lines 301-306: both handlers only log; control stays in the for loop
AfterChannelError == "loop"

\* lines 301-306: channel.history raises (Forbidden or anything else) when it
\* requests messages, which it no longer does once the limit of line 216 is
\* reached; the channel's iteration ends with the counts it has
ScanRaise ==
  /\ pc = "scan"
  /\ UNCHANGED handler_vars
  /\ processed_count < HistoryLimit
  /\ now' \in Elapse
  /\ UNCHANGED << bot_owner_id, interaction, text_channels, start_time,
                  fourteen_days_ago, deleted_count, failed_count,
                  channel_vars, last_call, faults, followups >>
  /\ \E error \in {"access-denied", "unexpected-error"} :
       results' = Append(results, Result(error))
  /\ ch' = NextChannelAfterError(ch)
  /\ pc' = AfterChannelError


Min(a, b) == IF a < b THEN a ELSE b

\* lines 259-276: one iteration of the chunk loop over the remaining bulk list
FinalBulkChunk ==
  /\ pc = "final_bulk"
  /\ UNCHANGED handler_vars
  /\ flush_i < Len(messages_to_delete_bulk)
  /\ now' \in Elapse
  /\ LET chunk == SubSeq(messages_to_delete_bulk, flush_i + 1,
                         Min(flush_i + BatchCap, Len(messages_to_delete_bulk)))
     IN \E outcome \in BatchOutcomes :
          LET r == FinalBulk(outcome, chunk, messages_to_delete_single)
          IN /\ messages_to_delete_single' = r.single
             /\ deleted_count' = AddTotal(deleted_count, r.deleted)
             /\ channel_deleted_count' = AddChannel(channel_deleted_count, r.deleted)
             /\ failed_count' = AddTotal(failed_count, r.failed)
             /\ channel_failed_count' = AddChannel(channel_failed_count, r.failed)
             /\ last_call' = Call("bulk", chunk, outcome, r.sleep)
             /\ batch_calls' = Append(batch_calls, [size |-> Len(chunk), outcome |-> outcome])
             /\ faults' = faults + Fault(outcome)
  /\ flush_i' = flush_i + BatchCap
  /\ pc' = IF flush_i' < Len(messages_to_delete_bulk) THEN "final_bulk" ELSE "single"
  /\ UNCHANGED << bot_owner_id, interaction, text_channels, start_time,
                  fourteen_days_ago, ch, messages_to_delete_bulk, processed_count,
                  single_i, not_found_count, single_calls, results, followups >>

\* a loop that takes the same message again after a transient error
NextSingleRetry(index, outcome) == IF outcome = "HTTPException" THEN index ELSE index + 1

\* line 281: the for loop moves on to the next queued message whatever the
\* outcome of the delete (every handler of lines 287-298 falls through)
NextSingle(index, outcome) == index + 1

\* lines 281-298: one iteration of the loop over the single queue
SingleDeleteMessage ==
  /\ pc = "single"
  /\ UNCHANGED handler_vars
  /\ single_i < Len(messages_to_delete_single)
  /\ now' \in Elapse
  /\ LET msg_to_delete == messages_to_delete_single[single_i + 1]
     IN \E outcome \in SingleOutcomes :
          LET r == SingleDelete(outcome)
          IN /\ deleted_count' = AddTotal(deleted_count, r.deleted)
             /\ channel_deleted_count' = AddChannel(channel_deleted_count, r.deleted)
             /\ failed_count' = AddTotal(failed_count, r.failed)
             /\ channel_failed_count' = AddChannel(channel_failed_count, r.failed)
             /\ not_found_count' = not_found_count + r.not_found
             /\ single_calls' = single_calls + 1
             /\ last_call' = Call("single", << msg_to_delete >>, outcome, r.sleep)
             /\ faults' = faults + Fault(outcome)
             /\ single_i' = NextSingle(single_i, outcome)
  /\ pc' = "single"
  /\ UNCHANGED << bot_owner_id, interaction, text_channels, start_time,
                  fourteen_days_ago, ch, messages_to_delete_bulk,
                  messages_to_delete_single, processed_count, flush_i, batch_calls,
                  results, followups >>

\* lines 308-309: the single queue is drained; the channel's iteration ends
EndChannel ==
  /\ pc = "single"
  /\ UNCHANGED handler_vars
  /\ single_i = Len(messages_to_delete_single)
  /\ UNCHANGED << now, bot_owner_id, interaction, text_channels, start_time,
                  fourteen_days_ago, deleted_count, failed_count, channel_vars,
                  last_call, faults, followups >>
  /\ results' = Append(results, Result("none"))
  /\ ch' = NextChannel(ch)
  /\ pc' = "loop"

\* lines 311-317: the final report is sent with followup.send; a failure of the
\* send is only logged, and the summary is then not delivered
SendReport ==
  /\ pc = "loop"
  /\ UNCHANGED handler_vars
  /\ ch > Len(text_channels)
  /\ \E delivered \in BOOLEAN :
       followups' = Append(followups,
                           Followup("summary", deleted_count, failed_count,
                                    now - start_time, delivered))
  /\ pc' = "done"
  /\ UNCHANGED << now, bot_owner_id, interaction, text_channels >>
  /\ UNCHANGED engine_vars

Next ==
  \/ Defer
  \/ CheckDeletePerms
  \/ FetchOwner
  \/ BeginChannel
  \/ ScanMessage
  \/ ScanEnd
  \/ ScanRaise
  \/ FinalBulkChunk
  \/ SingleDeleteMessage
  \/ EndChannel
  \/ SendReport

Spec == Init /\ [][Next]_vars

\* every await of the handler returns or raises: the invocation keeps being
\* resumed by the event loop
SpecLive == InitBatch /\ [][Next]_vars /\ WF_vars(Next)

SpecBatch == InitBatch /\ [][Next]_vars

SpecScenario == InitScenario /\ [][Next]_vars

SpecLong == InitLong /\ [][Next]_vars

SpecGate == InitGate /\ [][Next]_vars


\* ------------------------------------------------------------- owner id
\* on_ready and shutdown_command share the global bot_owner_id with
\* check_delete_perms; each action is a stretch between two awaits

\* lines 78-87: on_ready resets the owner id, then awaits application_info
OnReady ==
  /\ ready_pc = "idle"
  /\ closed_by = {}
  /\ bot_owner_id' = None
  /\ ready_pc' = "fetch"
  /\ UNCHANGED << delete_vars, shutdown_pc, closed_by, mention_vars >>

\* lines 87-102: application_info returns or raises; on_ready then awaits
\* change_presence
OnReadyFetched ==
  /\ ready_pc = "fetch"
  /\ \/ bot_owner_id' = OwnerUser
     \/ UNCHANGED bot_owner_id
  /\ ready_pc' = "presence"
  /\ UNCHANGED << delete_vars, shutdown_pc, closed_by, mention_vars >>

\* line 102: change_presence returns or raises; on_ready ends
OnReadyDone ==
  /\ ready_pc = "presence"
  /\ ready_pc' = "idle"
  /\ UNCHANGED << bot_owner_id, delete_vars, shutdown_pc, closed_by, mention_vars >>

\* an owner check that every user passes
IsBotOwnerAnyone(user, owner) == TRUE

\* line 349
IsBotOwner(user, owner) == user = owner

\* lines 349-371: the owner is acknowledged (the send is awaited); anyone
\* else is refused
AfterOwnerCheck(user, owner) == IF IsBotOwner(user, owner) THEN "ack" ELSE "refused"

\* lines 321-335, 349-371: a user invokes shutdown_command; with the owner id
\* unset the handler awaits application_info, otherwise it compares at once
ShutdownInvoke(u) ==
  /\ shutdown_pc[u] \in {"idle", "refused", "unverified", "failed"}
  /\ closed_by = {}
  /\ shutdown_pc' = [shutdown_pc EXCEPT
                       ![u] = IF bot_owner_id = None
                              THEN "fetch"
                              ELSE AfterOwnerCheck(u, bot_owner_id)]
  /\ UNCHANGED << bot_owner_id, delete_vars, ready_pc, closed_by, mention_vars >>

\* lines 335-346, then 349-371: application_info returns and the id is stored
\* and compared without another await, or it raises and the command ends
ShutdownFetched(u) ==
  /\ shutdown_pc[u] = "fetch"
  /\ \/ /\ bot_owner_id' = OwnerUser
        /\ shutdown_pc' = [shutdown_pc EXCEPT ![u] = AfterOwnerCheck(u, bot_owner_id')]
     \/ /\ UNCHANGED bot_owner_id
        /\ shutdown_pc' = [shutdown_pc EXCEPT ![u] = "unverified"]
  /\ UNCHANGED << delete_vars, ready_pc, closed_by, mention_vars >>

\* lines 352-360: the acknowledgement is sent, and the handler sleeps, or the
\* send raises and the handler ends
ShutdownAcked(u) ==
  /\ shutdown_pc[u] = "ack"
  /\ \E next \in {"sleep", "failed"} :
       shutdown_pc' = [shutdown_pc EXCEPT ![u] = next]
  /\ UNCHANGED << bot_owner_id, delete_vars, ready_pc, closed_by, mention_vars >>

\* lines 360-361: the sleep is over and bot.close() is called
ShutdownClose(u) ==
  /\ shutdown_pc[u] = "sleep"
  /\ closed_by' = closed_by \cup {u}
  /\ shutdown_pc' = [shutdown_pc EXCEPT ![u] = "closed"]
  /\ UNCHANGED << bot_owner_id, delete_vars, ready_pc, mention_vars >>

\* shutdown commands of both users, on_ready and a delete_pings invocation on
\* a server without channels, interleaved at their awaits
NextOwner ==
  \/ Defer
  \/ CheckDeletePerms
  \/ FetchOwner
  \/ SendReport
  \/ OnReady
  \/ OnReadyFetched
  \/ OnReadyDone
  \/ \E u \in Users : ShutdownInvoke(u)
  \/ \E u \in Users : ShutdownFetched(u)
  \/ \E u \in Users : ShutdownAcked(u)
  \/ \E u \in Users : ShutdownClose(u)

SpecOwner == InitOwner /\ [][NextOwner]_vars


\* ------------------------------------------------------------- on_message
\* lines 126-128: the members on_message may ping
IsEligible(member, author) ==
  /\ ~member.bot
  /\ member # author
  /\ member.status \in {"online", "idle", "dnd", "offline"}

\* a message on_message has sent, and the member its content pings
Reply(kind, member) == [kind |-> kind, member |-> member]

\* lines 105-160 up to the first await: messages of bots, messages that do not
\* mention the bot and messages outside a server text channel are ignored
\* (line 115 raises or line 119 returns); otherwise a member is chosen among
\* the eligible ones and the reply is awaited
OnMessage ==
  /\ mention_pc = "received"
  /\ LET eligible == {m \in received_message.members :
                        IsEligible(m, received_message.author)}
     IN IF \/ received_message.author.bot
           \/ ~received_message.mentions_bot
           \/ ~received_message.text_channel
        THEN mention_pc' = "done" /\ UNCHANGED chosen_member
        ELSE IF received_message.members_raise
        THEN mention_pc' = "reply_error" /\ UNCHANGED chosen_member
        ELSE IF eligible # {}
        THEN /\ chosen_member' \in eligible
             /\ mention_pc' = "reply_ping"
        ELSE mention_pc' = "reply_none" /\ UNCHANGED chosen_member
  /\ UNCHANGED << bot_owner_id, delete_vars, owner_vars, received_message, replies >>

\* lines 132, 143, 155: message.reply returns or raises; after Forbidden the
\* ping falls back to channel.send (line 147), any other failure is logged
MessageReplied ==
  /\ mention_pc \in {"reply_error", "reply_ping", "reply_none"}
  /\ \E outcome \in {"ok", "Forbidden", "Exception"} :
       IF outcome = "ok"
       THEN /\ replies' =
                 Append(replies,
                        CASE mention_pc = "reply_ping" -> Reply("ping", chosen_member)
                          [] mention_pc = "reply_none" ->
                               Reply("nobody-online", received_message.author)
                          [] OTHER -> Reply("members-error", received_message.author))
            /\ mention_pc' = "done"
       ELSE /\ UNCHANGED replies
            /\ mention_pc' = IF mention_pc = "reply_ping" /\ outcome = "Forbidden"
                             THEN "fallback" ELSE "done"
  /\ UNCHANGED << bot_owner_id, delete_vars, owner_vars, received_message, chosen_member >>

\* lines 146-148: the apology sent with channel.send returns or is refused
FallbackSent ==
  /\ mention_pc = "fallback"
  /\ \/ replies' = Append(replies, Reply("cannot-reply", received_message.author))
     \/ UNCHANGED replies
  /\ mention_pc' = "done"
  /\ UNCHANGED << bot_owner_id, delete_vars, owner_vars, received_message, chosen_member >>

NextMention ==
  \/ OnMessage
  \/ MessageReplied
  \/ FallbackSent

SpecMention == InitMention /\ [][NextMention]_vars


\* ------------------------------------------------------------------ claims
\* the invocation is inside the iteration of channel ch
InChannel == pc \in {"scan", "final_bulk", "single"}

\* the messages of the current channel the scan has inspected so far
Inspected == [i \in 1 .. processed_count |-> MsgAt(text_channels[ch].history, i)]

ByBot(message) == message.author = BotUser

\* classification against the cutoff of the session start
RecentAtStart(message) == message.created_at > start_time - FourteenDays

RecentByBot(message) == ByBot(message) /\ RecentAtStart(message)

AgedByBot(message) == ByBot(message) /\ ~RecentAtStart(message)

Elements(seq) == {seq[i] : i \in 1 .. Len(seq)}

RECURSIVE SumSizes(_)
SumSizes(calls) == IF calls = <<>> THEN 0 ELSE Head(calls).size + SumSizes(Tail(calls))

\* C1: every message handed to a bulk or a single delete call, and every
\* message waiting in the bulk list or the single queue, is a message of the
\* scanned channel's history whose author is the bot.
C1_OnlyOwnMessagesDeleted ==
  /\ \A m \in Elements(last_call.msgs) :
       /\ m = MsgAt(text_channels[last_call.channel].history, m.id)
       /\ m.author = BotUser
  /\ \A m \in Elements(messages_to_delete_bulk) \cup Elements(messages_to_delete_single) :
       m.author = BotUser

\* a channel with messages of other authors has been scanned to its end and
\* both a bulk and a single delete call were made for it
C1_Witness ==
  /\ pc = "single"
  /\ text_channels[ch].history = MixedHistory
  /\ processed_count = HistLen(MixedHistory)
  /\ batch_calls # <<>>
  /\ last_call.kind = "single"
  /\ last_call.channel = ch

\* C2: the bulk list and every chunk handed to channel.delete_messages hold
\* only messages created after session start - 14 days; a message at or before
\* that instant is handed to a delete call only by a single delete.
C2_NoAgedInBatch ==
  /\ \A m \in Elements(messages_to_delete_bulk) : RecentAtStart(m)
  /\ \A m \in Elements(last_call.msgs) :
       ~RecentAtStart(m) => last_call.kind = "single"

\* after a periodic and a final bulk call, a message exactly 14 days old at the
\* session start is deleted by a single delete
C2_Witness ==
  /\ pc = "single"
  /\ Len(batch_calls) = 2
  /\ batch_calls[1].size = BatchCap
  /\ start_time = ClockStart
  /\ last_call.kind = "single"
  /\ last_call.msgs[1].created_at = Boundary

\* C3: the bulk list stays below 99 between two messages of the scan (it is
\* emptied in the iteration that makes it reach 99, whatever the outcome of
\* the bulk call), every bulk call carries 1 to 99 messages, and when the
\* single deletes begin every recent message inspected has been in a bulk call.
C3_BufferWithinCapacity ==
  /\ Len(messages_to_delete_bulk) < BatchCap
  /\ \A i \in 1 .. Len(batch_calls) : batch_calls[i].size \in 1 .. BatchCap
  /\ last_call.kind = "bulk" => Len(last_call.msgs) \in 1 .. BatchCap
  /\ ( /\ pc = "scan"
       /\ last_call.kind = "bulk"
       /\ last_call.channel = ch
       /\ last_call.msgs[Len(last_call.msgs)].id = processed_count )
     => messages_to_delete_bulk = <<>>
  /\ pc = "single" =>
       SumSizes(batch_calls) = Len(SelectSeq(Inspected, RecentByBot))

\* a full batch failed and was emptied during the scan, and a partial batch
\* was flushed when the scan completed
C3_Witness ==
  /\ pc = "single"
  /\ Len(batch_calls) = 2
  /\ batch_calls[1] = [size |-> BatchCap, outcome |-> "HTTPException"]
  /\ batch_calls[2].size \in 1 .. 2


\* C4: while a channel is scanned, the bulk list is exactly the bot's inspected
\* messages created after start_time - 14 days and the single queue exactly
\* the bot's other inspected messages (so a message created exactly 14 days
\* before the session start is in the single queue), in inspection order and
\* whatever the clock shows when a message is inspected; no message is in both
\* (until a failed final bulk call copies its chunk into the single queue).
C4_ClassifiedAtSessionStart ==
  /\ InChannel => fourteen_days_ago = start_time - FourteenDays
  /\ InChannel => messages_to_delete_bulk = SelectSeq(Inspected, RecentByBot)
  /\ pc \in {"scan", "final_bulk"} =>
       /\ messages_to_delete_single = SelectSeq(Inspected, AgedByBot)
       /\ Elements(messages_to_delete_bulk) \cap Elements(messages_to_delete_single) = {}

\* the clock has moved on since the session start; a message that is recent for
\* the session start only is in the bulk list and the message exactly 14 days
\* old is in the single queue
C4_Witness ==
  /\ pc = "scan"
  /\ start_time = ClockStart
  /\ now > start_time
  /\ Len(messages_to_delete_bulk) = 2
  /\ messages_to_delete_bulk[2].created_at = Edge
  /\ messages_to_delete_single # <<>>
  /\ messages_to_delete_single[1].created_at = Boundary

RECURSIVE SumDeleted(_)
SumDeleted(rs) == IF rs = <<>> THEN 0 ELSE Head(rs).deleted + SumDeleted(Tail(rs))

RECURSIVE SumFailed(_)
SumFailed(rs) == IF rs = <<>> THEN 0 ELSE Head(rs).failed + SumFailed(Tail(rs))

\* C5: at every point of the run deleted_count is the sum of the channels'
\* deleted counts and failed_count the sum of their failed counts, the channel
\* being processed included.
C5_TotalsAreChannelSums ==
  /\ deleted_count =
       SumDeleted(results) + (IF InChannel THEN channel_deleted_count ELSE 0)
  /\ failed_count =
       SumFailed(results) + (IF InChannel THEN channel_failed_count ELSE 0)

\* a finished run in which a bulk call was refused, a single delete failed and
\* other deletes succeeded, over two channels
C5_Witness ==
  /\ pc = "done"
  /\ Len(results) = Len(text_channels)
  /\ results[1].deleted > 0
  /\ results[1].failed > 2
  /\ results[2].deleted > 0

PermsHeld(k) ==
  text_channels[k].read_message_history /\ text_channels[k].manage_messages

\* C6: a channel in which the bot lacks Read Message History or Manage
\* Messages is never scanned: no message of it is inspected, no delete call is
\* made for it, and its iteration ends skipped with zero counts.
C6_NoPermissionNoDelete ==
  /\ InChannel => PermsHeld(ch)
  /\ last_call.kind # "none" => PermsHeld(last_call.channel)
  /\ \A k \in 1 .. Len(results) :
       ~PermsHeld(k) =>
         /\ results[k].skipped \in {"missing-permission", "no-member"}
         /\ results[k].deleted = 0
         /\ results[k].failed = 0
  /\ (pc = "loop" /\ results # <<>> /\ ~PermsHeld(Len(results))) =>
       processed_count = 0

\* a channel without the permission was skipped and the next one was cleaned
C6_Witness ==
  /\ Len(results) = 2
  /\ ~text_channels[1].manage_messages
  /\ results[1].skipped = "missing-permission"
  /\ results[2].deleted > 0
  /\ deleted_count = results[2].deleted


\* the step makes a bulk call that ends with one of the outcomes
BulkCallStep(outcomes) ==
  /\ last_call'.seq # last_call.seq
  /\ last_call'.kind = "bulk"
  /\ last_call'.outcome \in outcomes

\* the step makes a single delete call that ends with one of the outcomes
SingleCallStep(outcomes) ==
  /\ last_call'.seq # last_call.seq
  /\ last_call'.kind = "single"
  /\ last_call'.outcome \in outcomes

\* the bulk calls of the current channel that failed did so with HTTPException,
\* and no single delete of the channel failed
OnlyTransientBulkErrors ==
  /\ \A i \in 1 .. Len(batch_calls) : batch_calls[i].outcome \in {"ok", "HTTPException"}
  /\ channel_failed_count = 0
  /\ not_found_count = 0

\* C7: a bulk call that fails with HTTPException, periodic or final, appends
\* its whole batch to the single queue and changes no counter; the single queue
\* never holds a message twice; and when the queue is drained without any
\* other error, every inspected message of the bot is counted deleted once.
C7_TransientBatchRerouted ==
  /\ [][BulkCallStep({"HTTPException"}) =>
          /\ messages_to_delete_single' = messages_to_delete_single \o last_call'.msgs
          /\ UNCHANGED << deleted_count, failed_count, channel_deleted_count,
                          channel_failed_count >>]_vars
  /\ [](Cardinality(Elements(messages_to_delete_single)) = Len(messages_to_delete_single))
  /\ []( ( /\ pc = "single"
           /\ single_i = Len(messages_to_delete_single)
           /\ \E i \in 1 .. Len(batch_calls) : batch_calls[i].outcome = "HTTPException"
           /\ OnlyTransientBulkErrors )
         => channel_deleted_count = Len(SelectSeq(Inspected, ByBot)) )

\* a full periodic batch and the final partial batch both failed with
\* HTTPException and every message was then single-deleted
C7_Witness ==
  /\ pc = "single"
  /\ single_i = Len(messages_to_delete_single)
  /\ Len(batch_calls) = 2
  /\ batch_calls[1] = [size |-> BatchCap, outcome |-> "HTTPException"]
  /\ batch_calls[2].outcome = "HTTPException"
  /\ OnlyTransientBulkErrors
  /\ channel_deleted_count > BatchCap
  /\ channel_deleted_count = Len(SelectSeq(Inspected, ByBot))

\* C8: after a bulk call refused with Forbidden, every message of the refused
\* batch is in the single queue.
C8_DeniedBatchRerouted ==
  (last_call.kind = "bulk" /\ last_call.outcome = "Forbidden")
    => Elements(last_call.msgs) \subseteq Elements(messages_to_delete_single)

\* C9: a single delete that ends with NotFound changes no counter and the loop
\* moves on to the next message of the single queue.
C9_NotFoundNotCounted ==
  [][SingleCallStep({"NotFound"}) =>
       /\ UNCHANGED << failed_count, channel_failed_count, deleted_count,
                       channel_deleted_count, messages_to_delete_single >>
       /\ pc' = "single"
       /\ single_i' = single_i + 1]_vars

\* a single delete hit NotFound and the next message was then deleted, with
\* nothing counted failed
C9_Witness ==
  /\ last_call.kind = "single"
  /\ last_call.outcome = "ok"
  /\ single_i > 1
  /\ not_found_count = 1
  /\ channel_failed_count = 0
  /\ failed_count = 0

\* C10: the iterations of the channels end one after the other whatever
\* happens in them; a run that passed the permission gate ends with one result
\* for every channel of the listing, and the totals hold the counts each
\* channel had when its iteration ended, failed iterations included.
C10_ChannelErrorDoesNotAbort ==
  /\ ch > 0 => Len(results) = ch - 1
  /\ \A k \in 1 .. Len(results) : results[k].channel = k
  /\ (pc = "done" /\ ch > 0) =>
       /\ Len(results) = Len(text_channels)
       /\ deleted_count = SumDeleted(results)
       /\ failed_count = SumFailed(results)

\* the history of the first channel raised after a full batch was deleted; the
\* second channel was still cleaned and the totals hold both
C10_Witness ==
  /\ pc = "done"
  /\ Len(results) = 2
  /\ results[1].skipped = "unexpected-error"
  /\ results[1].deleted = BatchCap
  /\ results[2].skipped = "none"
  /\ results[2].deleted = 1
  /\ deleted_count = BatchCap + 1


Summaries == SelectSeq(followups, LAMBDA f : f.kind = "summary")

\* C11 as stated: a run that passed the permission gate ends with exactly one
\* summary delivered to the invoker.
C11_SummaryAlwaysDelivered ==
  (pc = "done" /\ ch > 0) =>
    /\ Len(Summaries) = 1
    /\ Summaries[1].delivered

\* C11: every invocation ends; a run that passed the permission gate has by
\* then made exactly one followup.send of the summary, with the two totals and
\* the time elapsed since start_time, and has made none before it ends (the
\* send may fail, and the summary is then not delivered).
C11_TerminatesWithOneSummarySend ==
  /\ <>(pc = "done")
  /\ [](pc # "done" => Summaries = <<>>)
  /\ []((pc = "done" /\ ch > 0) =>
          /\ Len(Summaries) = 1
          /\ Summaries[1].deleted = deleted_count
          /\ Summaries[1].failed = failed_count
          /\ Summaries[1].duration = now - start_time)

\* a run in which a channel was skipped, the history of another raised after a
\* batch was deleted and a delete call failed has ended with its summary
C11_Witness ==
  /\ pc = "done"
  /\ Len(results) = 2
  /\ results[1].skipped = "missing-permission"
  /\ results[2].skipped = "access-denied"
  /\ results[2].deleted = BatchCap
  /\ Len(Summaries) = 1
  /\ Summaries[1].delivered
  /\ Summaries[1].deleted = BatchCap

CeilDiv(n, d) == (n + d - 1) \div d

\* ceil(n/99) successful bulk calls, each of 99 messages except possibly the last
ExpectedBatches(n) ==
  [i \in 1 .. CeilDiv(n, BatchCap) |->
     [size |-> IF i * BatchCap <= n THEN BatchCap ELSE n - (i - 1) * BatchCap,
      outcome |-> "ok"]]

\* every message of the history is the bot's and recent at the session start
AllRecentByBot(h) ==
  \A i \in 1 .. Len(h) :
    h[i].author = BotUser /\ h[i].created_at > start_time - FourteenDays

\* every message of the history is the bot's and aged at the session start
AllAgedByBot(h) ==
  \A i \in 1 .. Len(h) :
    h[i].author = BotUser /\ h[i].created_at <= start_time - FourteenDays

\* the single queue of channel ch is drained and no delete call has failed
ChannelDoneNoFault ==
  /\ pc = "single"
  /\ single_i = Len(messages_to_delete_single)
  /\ faults = 0

\* C12: when a channel of n bot messages, all recent, has been processed with
\* every delete call succeeding, ceil(n/99) bulk calls were made for it, each
\* of 99 messages except possibly the last, no single delete was made, and the
\* channel counts n deleted and none failed (as do the totals of a
\* one-channel server when the run has ended).
C12_AllRecentBatches ==
  /\ (ChannelDoneNoFault /\ AllRecentByBot(text_channels[ch].history)) =>
       LET n == HistLen(text_channels[ch].history)
       IN /\ batch_calls = ExpectedBatches(n)
          /\ single_calls = 0
          /\ messages_to_delete_single = <<>>
          /\ channel_deleted_count = n
          /\ channel_failed_count = 0
  /\ ( /\ pc = "done" /\ faults = 0 /\ Len(text_channels) = 1 /\ Len(results) = 1
       /\ results[1].skipped = "none"
       /\ AllRecentByBot(text_channels[1].history) ) =>
       /\ deleted_count = HistLen(text_channels[1].history)
       /\ failed_count = 0

\* 150 recent messages were deleted by two bulk calls of 99 and 51 messages
C12_Witness ==
  /\ ChannelDoneNoFault
  /\ text_channels[ch].history = RecentHistory(BatchCap + 51)
  /\ batch_calls = << [size |-> BatchCap, outcome |-> "ok"], [size |-> 51, outcome |-> "ok"] >>
  /\ single_calls = 0
  /\ channel_deleted_count = BatchCap + 51

\* C13: when a channel of n bot messages, all aged at the session start, has
\* been processed with every delete call succeeding, n single deletes and no
\* bulk call were made for it and the channel counts n deleted.
C13_AllAgedSingles ==
  (ChannelDoneNoFault /\ AllAgedByBot(text_channels[ch].history)) =>
    LET n == HistLen(text_channels[ch].history)
    IN /\ single_calls = n
       /\ batch_calls = <<>>
       /\ channel_deleted_count = n
       /\ channel_failed_count = 0

\* three messages 20 days old were deleted by three single deletes
C13_Witness ==
  /\ ChannelDoneNoFault
  /\ text_channels[ch].history = AgedHistory(3)
  /\ single_calls = 3
  /\ last_call.kind = "single"
  /\ last_call.seq = 3
  /\ batch_calls = <<>>
  /\ channel_deleted_count = 3
  /\ deleted_count = 3

\* the messages of the bot among the first limit messages of a history
RECURSIVE CountByBot(_, _)
CountByBot(h, limit) ==
  IF h = <<>> \/ limit <= 0
  THEN 0
  ELSE (IF Head(h).author = BotUser THEN Min(Head(h).count, limit) ELSE 0)
         + CountByBot(Tail(h), limit - Head(h).count)

\* C14: a scan inspects at most 5000 messages of a channel; after the 5000th
\* the scan ends normally (the channel is not abandoned), the remaining bulk
\* list and the single queue are then processed, and only messages among the
\* first 5000 are handed to a delete call or counted.
C14_HistoryCapped ==
  /\ [](processed_count <= HistoryLimit)
  /\ [](\A m \in Elements(last_call.msgs) \cup Elements(messages_to_delete_bulk)
                 \cup Elements(messages_to_delete_single) : m.id <= HistoryLimit)
  /\ [](InChannel =>
          channel_deleted_count + channel_failed_count + not_found_count
            <= CountByBot(text_channels[ch].history, HistoryLimit))
  /\ [](pc \in {"final_bulk", "single"} =>
          processed_count = Min(HistoryLimit, HistLen(text_channels[ch].history)))
  /\ [](ChannelDoneNoFault =>
          channel_deleted_count = CountByBot(text_channels[ch].history, HistoryLimit))
  /\ [][(pc = "scan" /\ processed_count = HistoryLimit) =>
          /\ pc' = IF messages_to_delete_bulk # <<>> THEN "final_bulk" ELSE "single"
          /\ UNCHANGED << ch, results, messages_to_delete_bulk, messages_to_delete_single,
                          deleted_count, failed_count >>]_vars

\* the scan of a channel of more than 5000 messages stopped at the 5000th; the
\* bulk list and the two aged messages inspected were then deleted
C14_Witness ==
  /\ ChannelDoneNoFault
  /\ HistLen(text_channels[ch].history) > HistoryLimit
  /\ processed_count = HistoryLimit
  /\ batch_calls = << [size |-> 1, outcome |-> "ok"] >>
  /\ single_calls = 2
  /\ last_call.msgs[1].id = HistoryLimit
  /\ channel_deleted_count = 3

\* the invoker is the application's owner or holds Manage Messages, in a server
InvokerEntitled ==
  /\ interaction.guild
  /\ interaction.user = OwnerUser \/ interaction.manage_messages

\* the handler has answered with a refusal or an error
Refused ==
  \E i \in 1 .. Len(followups) :
    followups[i].kind \in {"server-only", "no-owner", "denied", "command-error"}

\* nothing of the deletion engine has run
EngineIdle ==
  /\ pc \in {"invoked", "check_perms", "fetch_owner", "done"}
  /\ ch = 0
  /\ processed_count = 0
  /\ last_call = NoCall
  /\ results = <<>>
  /\ Summaries = <<>>

\* C15: when the invoker is neither the owner nor a holder of the server-wide
\* Manage Messages permission, or the command is used outside a server, or the
\* owner id could not be fetched, no channel is scanned, no delete call is made
\* and no summary is sent; the engine runs only with the owner id resolved.
C15_EngineOnlyAfterAuthorization ==
  /\ ~InvokerEntitled => EngineIdle
  /\ Refused => EngineIdle /\ pc = "done"
  /\ (pc = "done" /\ bot_owner_id = None) => EngineIdle
  /\ ~EngineIdle => InvokerEntitled /\ bot_owner_id = OwnerUser

\* a holder of Manage Messages invoked the command, the owner id could not be
\* fetched, and the command ended with the engine idle
C15_Witness ==
  /\ pc = "done"
  /\ interaction = Interaction(OtherUser, TRUE, TRUE)
  /\ bot_owner_id = None
  /\ followups = << Notice("no-owner") >>
  /\ EngineIdle

\* C16: bot.close() is called only by a shutdown command of the owner, however
\* the commands interleave with on_ready and with check_delete_perms: only the
\* owner's command gets past the owner check, the owner check is made with the
\* owner id set, and a command whose fetch of the unset owner id fails ends
\* without calling bot.close().
C16_ShutdownOnlyByOwner ==
  /\ [](closed_by \subseteq {OwnerUser})
  /\ [](\A u \in Users : shutdown_pc[u] \in {"ack", "sleep", "closed"} => u = OwnerUser)
  /\ [][\A u \in Users :
          (shutdown_pc[u] # "ack" /\ shutdown_pc'[u] = "ack") =>
            u = bot_owner_id' /\ bot_owner_id' # None]_vars
  /\ [][\A u \in Users :
          (shutdown_pc[u] = "fetch" /\ shutdown_pc'[u] # "fetch" /\ bot_owner_id' = None) =>
            /\ shutdown_pc'[u] = "unverified"
            /\ UNCHANGED closed_by]_vars
  /\ [](\A u \in Users : shutdown_pc[u] = "unverified" => u \notin closed_by)

\* on_ready has reset the owner id and not yet fetched it again; meanwhile the
\* other user's command was refused and the owner's command closed the bot
C16_Witness ==
  /\ ready_pc = "fetch"
  /\ shutdown_pc[OtherUser] = "refused"
  /\ shutdown_pc[OwnerUser] = "closed"
  /\ closed_by = {OwnerUser}
  /\ pc = "fetch_owner"

\* the replies whose content is the ping of the chosen member
Pings == SelectSeq(replies, LAMBDA r : r.kind = "ping")

\* C17: the member pinged in reply to a mention is a member of the channel,
\* not a bot, not the author of the mentioning message, and online (status
\* online, idle or dnd); when the channel has no such member nobody is pinged.
C17_PingedMemberOnline ==
  /\ \A i \in 1 .. Len(Pings) :
       /\ Pings[i].member \in received_message.members
       /\ ~Pings[i].member.bot
       /\ Pings[i].member # received_message.author
       /\ Pings[i].member.status \in {"online", "idle", "dnd"}
  /\ (\A m \in received_message.members :
        m.bot \/ m = received_message.author \/ m.status = "offline")
       => Pings = <<>>

\* C18: the channels are taken one at a time in the order of the listing:
\* the loop index only moves to the next channel, and only when the current
\* iteration has ended (no scan, flush or single delete pending); every
\* history read and every delete call is for the channel of the current
\* index, so none is made for a channel before those of the earlier channels
\* are over; and every channel has at most one iteration.
C18_ChannelsInListingOrder ==
  /\ [][ch' = ch \/ ch' = ch + 1]_vars
  /\ [][ch' # ch => /\ pc' = "loop"
                     /\ pc \in {"check_perms", "fetch_owner", "loop", "scan", "single"}
                     /\ pc = "single" => single_i = Len(messages_to_delete_single)]_vars
  /\ [][processed_count' > processed_count =>
          /\ pc = "scan" /\ ch' = ch
          /\ processed_count' = processed_count + 1]_vars
  /\ [][last_call' # last_call =>
          /\ InChannel /\ ch' = ch
          /\ last_call'.channel = ch
          /\ last_call.channel <= ch]_vars
  /\ [](ch > 0 => Len(results) = ch - 1)
  /\ [](\A k \in 1 .. Len(results) : results[k].channel = k)
  /\ [](ch <= Len(text_channels) + 1)

\* the first channel was scanned and cleaned, then the second; the latest
\* delete call is for the second channel
C18_Witness ==
  /\ ch = 2
  /\ pc = "single"
  /\ results = << [channel |-> 1, deleted |-> 1, failed |-> 0, skipped |-> "none"] >>
  /\ last_call.channel = 2
  /\ last_call.seq = 3
  /\ processed_count = HistLen(text_channels[2].history)

\* the scan of the current channel has yielded its last message
ScanComplete == ~HistoryHasNext(text_channels[ch].history, processed_count)

\* the chunk loop has gone over the whole bulk list
FlushComplete == flush_i >= Len(messages_to_delete_bulk)

AnyOutcome == {"ok", "Forbidden", "NotFound", "HTTPException", "Exception"}

\* C19: within a channel, a bulk call made during the scan carries a full
\* batch and the scan goes on after it; the remaining bulk list is flushed only
\* when the scan is complete; a single delete is made only when the scan and
\* that flush are complete; and an iteration starts with both lists empty.
C19_PhasesOrdered ==
  /\ [][BulkCallStep(AnyOutcome) =>
          \/ /\ pc = "scan" /\ pc' = "scan"
             /\ Len(last_call'.msgs) = BatchCap
             /\ processed_count' = processed_count + 1
          \/ /\ pc = "final_bulk"
             /\ ScanComplete
             /\ processed_count' = processed_count]_vars
  /\ [][SingleCallStep(AnyOutcome) =>
          pc = "single" /\ ScanComplete /\ FlushComplete]_vars
  /\ [](pc = "final_bulk" => ScanComplete /\ single_calls = 0)
  /\ [](pc = "single" => ScanComplete /\ FlushComplete)
  /\ [][(pc = "loop" /\ pc' \in {"loop", "scan"}) =>
          /\ messages_to_delete_bulk' = <<>>
          /\ messages_to_delete_single' = <<>>]_vars

\* a full batch was deleted while the scan went on, the two remaining recent
\* messages were flushed after the scan, and a single delete was then made
C19_Witness ==
  /\ pc = "single"
  /\ text_channels[ch].history = OverflowHistory
  /\ batch_calls = << [size |-> BatchCap, outcome |-> "ok"], [size |-> 2, outcome |-> "ok"] >>
  /\ flush_i = BatchCap
  /\ single_calls = 1
  /\ last_call.kind = "single"

\* C20: when a delete call is made, the delete call before it in the same
\* invocation was followed by its pacing delay: 1 s after a bulk call, 1.5 s or
\* 5 s after a single delete (delays in tenths of a second), whatever the
\* outcome of that call.
C20_EveryDeleteCallPaced ==
  [][last_call'.seq # last_call.seq =>
       /\ last_call.kind = "bulk" => last_call.sleep = 10
       /\ last_call.kind = "single" => last_call.sleep \in {15, 50}]_vars

\* the iteration of a channel has just ended (its lists are still in place)
IterationEnded == pc \in {"loop", "done"} /\ results # <<>>

\* C21 as stated: when the iteration of a channel has ended, every message of
\* its single queue has received its single delete call.
C21_EveryQueuedMessageCalled ==
  IterationEnded => single_calls = Len(messages_to_delete_single)

\* C21: the single deletes go through the queue once, at most one call per
\* message and exactly one when the iteration ends without a channel-level
\* error: each call is for the next message of the queue, the queue holds no
\* message twice and is not changed by a call, and whatever the outcome the
\* loop moves on within the same channel; Forbidden counts one failure,
\* HTTPException counts one failure and is followed by the 5 s sleep (in
\* tenths of a second).
C21_SingleDeleteOncePerMessage ==
  /\ [][SingleCallStep(AnyOutcome) =>
          /\ pc = "single" /\ pc' = "single" /\ ch' = ch
          /\ last_call'.msgs = << messages_to_delete_single[single_i + 1] >>
          /\ single_i' = single_i + 1
          /\ single_calls' = single_calls + 1
          /\ UNCHANGED << messages_to_delete_single, results, followups >>]_vars
  /\ [][SingleCallStep({"Forbidden"}) =>
          /\ failed_count' = failed_count + 1
          /\ channel_failed_count' = channel_failed_count + 1
          /\ UNCHANGED << deleted_count, channel_deleted_count >>]_vars
  /\ [][SingleCallStep({"HTTPException"}) =>
          /\ failed_count' = failed_count + 1
          /\ channel_failed_count' = channel_failed_count + 1
          /\ last_call'.sleep = 50
          /\ UNCHANGED << deleted_count, channel_deleted_count >>]_vars
  /\ [](Cardinality(Elements(messages_to_delete_single)) = Len(messages_to_delete_single))
  /\ [](pc = "single" => single_calls = single_i /\ single_i <= Len(messages_to_delete_single))
  /\ [](pc \in {"scan", "final_bulk"} => single_calls = 0)
  /\ []((IterationEnded /\ results[Len(results)].skipped = "none") =>
          single_calls = Len(messages_to_delete_single))

\* two single deletes of a channel failed, one of them with HTTPException, and
\* the loop went on to delete the third message of the queue
C21_Witness ==
  /\ pc = "single"
  /\ single_calls = 3
  /\ channel_failed_count = 2
  /\ failed_count = 2
  /\ not_found_count = 0
  /\ \A i \in 1 .. Len(batch_calls) : batch_calls[i].outcome = "ok"
  /\ last_call.kind = "single"
  /\ last_call.outcome = "ok"
  /\ last_call.msgs = << messages_to_delete_single[3] >>
  /\ channel_deleted_count > 1

\* the messages of the current channel that have their final outcome
Settled == channel_deleted_count + channel_failed_count + not_found_count

\* the messages of the current channel still waiting for a delete call
Pending ==
  CASE pc = "scan" -> Len(messages_to_delete_bulk) + Len(messages_to_delete_single)
    [] pc = "final_bulk" ->
         (Len(messages_to_delete_bulk) - Min(flush_i, Len(messages_to_delete_bulk)))
           + Len(messages_to_delete_single)
    [] OTHER -> Len(messages_to_delete_single) - single_i

\* C22: while a channel is processed, every message of the bot inspected so
\* far is either settled (counted deleted, counted failed, or not found) or
\* still waiting in the bulk list or the single queue, never both and never
\* twice; when the iteration ends without a channel-level error nothing is
\* waiting, so deleted + failed + not found is the number of the bot's
\* messages inspected, and the channel's result holds those counts.
C22_CandidatesConserved ==
  /\ InChannel =>
       Settled + Pending = CountByBot(text_channels[ch].history, processed_count)
  /\ (pc = "single" /\ single_i = Len(messages_to_delete_single)) =>
       /\ Settled = CountByBot(text_channels[ch].history, processed_count)
       /\ FlushComplete
  /\ (IterationEnded /\ results[Len(results)].skipped = "none") =>
       /\ results[Len(results)].deleted + results[Len(results)].failed + not_found_count
            = CountByBot(text_channels[Len(results)].history, processed_count)
       /\ processed_count =
            Min(HistoryLimit, HistLen(text_channels[Len(results)].history))

\* a channel ended with a full batch re-routed after a failed bulk call, one
\* message not found and every other message of the bot deleted once
C22_Witness ==
  /\ IterationEnded
  /\ results[Len(results)].skipped = "none"
  /\ text_channels[Len(results)].history = OverflowHistory
  /\ batch_calls[1] = [size |-> BatchCap, outcome |-> "Exception"]
  /\ not_found_count = 1
  /\ channel_failed_count = 0
  /\ single_calls > BatchCap
  /\ channel_deleted_count = CountByBot(OverflowHistory, processed_count) - 1

====
